---- MODULE Spec2Model ----
(***************************************************************************)
(* Model of the Speedy search overlay (src/components/SearchBar/           *)
(* SearchBar.tsx): the React state of the SearchBar component, the         *)
(* debounce timers it arms with setTimeout, the `search` requests and the  *)
(* `open_path` / `launch_app` invocations that are in flight, and one      *)
(* action per event handler, effect or promise continuation.               *)
(*                                                                         *)
(* JavaScript is single threaded: every handler below runs to completion   *)
(* together with the effects React runs for the state it changed, so each  *)
(* is one atomic action.  Strings are sequences of one-character strings.  *)
(* Array indices are the 0-based indices of the source; results[i] of the  *)
(* source is results[i + 1] here.                                          *)
(***************************************************************************)
EXTENDS Integers, Sequences, FiniteSets, TLC

\* ---------------------------------------------------------------- bounds
MaxQueryLen == 2        \* longest text typed into the input
MaxResults == 2         \* longest list the engine answers with
MaxInFlight == 2        \* search requests outstanding at once
MaxActivations == 1     \* open/launch invocations outstanding at once

\* ------------------------------------------------------ program constants
DebounceWindow == 200   \* setTimeout(..., 200)
MinQueryLen == 2        \* if (query.length < 2) return []

\* time advances in steps of half a window
TickStep == DebounceWindow \div 2

Alphabet == {"a", " "}

Min(a, b) == IF a < b THEN a ELSE b
Max(a, b) == IF a > b THEN a ELSE b

RECURSIVE StringsUpTo(_)
StringsUpTo(n) ==
    IF n = 0 THEN {<<>>}
    ELSE LET shorter == StringsUpTo(n - 1)
         IN  shorter \cup {Append(s, c) : s \in {t \in shorter : Len(t) = n - 1}, c \in Alphabet}

\* the values the input field can hold
Queries == StringsUpTo(MaxQueryLen)

\* the values one edit of the input turns q into: a character typed at the
\* end, the last character deleted, or the field cleared
Edits(q) ==
    {x \in Queries :
        \/ x = <<>>
        \/ Len(x) = Len(q) + 1 /\ SubSeq(x, 1, Len(q)) = q
        \/ Len(x) = Len(q) - 1 /\ x = SubSeq(q, 1, Len(x))}

\* String.prototype.trim: strip leading and trailing white space
RECURSIVE TrimLeft(_)
TrimLeft(s) == IF s # <<>> /\ Head(s) = " " THEN TrimLeft(Tail(s)) ELSE s
RECURSIVE TrimRight(_)
TrimRight(s) ==
    IF s # <<>> /\ s[Len(s)] = " " THEN TrimRight(SubSeq(s, 1, Len(s) - 1)) ELSE s
Trim(s) == TrimRight(TrimLeft(s))

\* type SearchResult (name and score play no part in the control flow);
\* the entries the engine knows, in the order it ranks them
Catalogue ==
    << [path |-> "p1", type |-> "app"],
       [path |-> "p2", type |-> "file"],
       [path |-> "p3", type |-> "folder"] >>

\* the entries of the catalogue at the positions in pick, in ranking order
RECURSIVE Ranked(_, _)
Ranked(pick, from) ==
    IF from > Len(Catalogue) THEN <<>>
    ELSE IF from \in pick THEN <<Catalogue[from]>> \o Ranked(pick, from + 1)
    ELSE Ranked(pick, from + 1)

\* what invoke('search') can resolve to: any matches, best first
Responses ==
    {Ranked(pick, 1) : pick \in {p \in SUBSET (1..Len(Catalogue)) :
                                     Cardinality(p) <= MaxResults}}

\* how an invoke() promise settles
Outcomes == {[ok |-> TRUE, value |-> r] : r \in Responses}
            \cup {[ok |-> FALSE, value |-> <<>>]}

RemoveAt(s, i) == SubSeq(s, 1, i - 1) \o SubSeq(s, i + 1, Len(s))

NoResult == [path |-> "", type |-> ""]
NoCall == [cmd |-> "", path |-> ""]
Event(kind, query, result, flag) ==
    [kind |-> kind, query |-> query, result |-> result, call |-> NoCall,
     flag |-> flag]

VARIABLES
    isVisible,       \* useState(false)
    searchQuery,     \* useState('')
    results,         \* useState<SearchResult[]>([])
    isSearching,     \* useState(false)
    selectedIndex,   \* useState(-1)
    timers,          \* timeouts armed and not yet fired or cleared; the one
                     \* debounceTimer.current refers to has current = TRUE
    inflight,        \* the pending invoke('search') calls, oldest first; each
                     \* notes whether searchQuery changed since it was issued
    pendingActs,     \* number of pending invoke('open_path' | 'launch_app') calls
    uncaught,        \* an exception escaped a handler
    sinceEdit,       \* time since searchQuery last changed, capped at the window
    burstEdits,      \* changes of searchQuery in the current run of changes, each
                     \* less than the window after the one before (counted to 2)
    burstRequests,   \* search requests issued since the current run began
    downs,           \* ArrowDown presses, with nothing but time and Enter in
                     \* between, since the selection was none (0: no such run)
    lastEvent        \* the handler that ran last

overlay == <<isVisible, searchQuery, results, isSearching, selectedIndex>>
vars == <<isVisible, searchQuery, results, isSearching, selectedIndex, timers,
          inflight, pendingActs, uncaught, sinceEdit, burstEdits, burstRequests,
          downs, lastEvent>>

\* ------------------------------------------------------- pieces of the code

\* the effect without its clearTimeout calls
ClearTimeout_Forgotten(ts) == ts

\* clearTimeout(debounceTimer.current): cancels the timeout the ref names
ClearTimeout(ts) == {t \in ts : ~t.current}

\* setTimeout whose id is not stored in debounceTimer.current
SetTimeout_RefNotStored(ts, q) ==
    ts \cup {[query |-> q, remaining |-> DebounceWindow, current |-> FALSE]}

\* debounceTimer.current = setTimeout(callback closing over q, 200)
SetTimeout(ts, q) ==
    {[t EXCEPT !.current = FALSE] : t \in ts}
        \cup {[query |-> q, remaining |-> DebounceWindow, current |-> TRUE]}

\* the length gate letting one-character queries through
ShouldInvoke_NonEmpty(query) == ~(Len(query) < 1)

\* performSearch: the length gate in front of invoke('search')
ShouldInvoke(query) == ~(Len(query) < MinQueryLen)

\* performSearch: try { return await invoke(...) } catch { return [] }
performSearch(outcome) ==
    IF outcome.ok THEN outcome ELSE [ok |-> TRUE, value |-> <<>>]

\* the timeout callback without try / catch / finally: a rejection escapes
\* and setIsSearching(false) is not reached
SearchSettle_NoTry(outcome) ==
    [results |-> outcome.value,
     isSearching |-> ~outcome.ok,
     rejected |-> ~outcome.ok]

\* the timeout callback with setIsSearching(false) at the end of the try
\* block instead of in finally
SearchSettle_FalseInTryOnly(outcome) ==
    [results |-> IF outcome.ok THEN outcome.value ELSE <<>>,
     isSearching |-> ~outcome.ok,
     rejected |-> FALSE]

\* the timeout callback after the await: try / catch / finally
SearchSettle(outcome) ==
    LET p == performSearch(outcome)
    IN  [results |-> IF p.ok THEN p.value ELSE <<>>,
         isSearching |-> FALSE,
         rejected |-> FALSE]

\* ArrowDown clamping at the length instead of the last index
ArrowDownIndex_ClampAtLen(prev, n) == Min(prev + 1, n)

\* handleKeyDown: the two functional updates of selectedIndex
ArrowDownIndex(prev, n) == Min(prev + 1, n - 1)
ArrowUpIndex(prev) == Max(prev - 1, -1)

\* handleKeyDown: event.key === 'Enter' && selectedIndex >= 0 && results[selectedIndex]
EnterActivates(idx, res) == idx >= 0 /\ idx < Len(res)

\* the command chosen by a test for 'file' instead of 'app'
ActivationCmd_FileOnly(result) ==
    IF result.type = "file" THEN "open_path" ELSE "launch_app"

\* handleResultClick: the command chosen for a result
ActivationCmd(result) ==
    IF result.type = "app" THEN "launch_app" ELSE "open_path"

\* handleResultClick with setIsVisible(false) in a finally block
ActivationSettle_CloseAlways(ok, visible) ==
    [isVisible |-> FALSE,
     alert |-> ~ok,
     rejected |-> FALSE]

\* handleResultClick after the await: setIsVisible(false), or catch and alert
ActivationSettle(ok, visible) ==
    [isVisible |-> IF ok THEN FALSE ELSE visible,
     alert |-> ~ok,
     rejected |-> FALSE]

\* the searchQuery effect (cleanup of the previous run, then the new run)
QueryEffect(q) ==
    LET cleared == ClearTimeout(timers)
    IN  IF Trim(q) = <<>>
        THEN /\ timers' = cleared
             /\ results' = <<>>
             /\ selectedIndex' = -1
        ELSE /\ timers' = SetTimeout(cleared, q)
             /\ UNCHANGED <<results, selectedIndex>>

\* bookkeeping of an ArrowDown press: a run of presses starts at selection none
\* (counted up to one more than the number of results)
DownsAfter(k, idx) ==
    IF idx = -1 THEN 1
    ELSE IF k > 0 THEN Min(k + 1, Len(results) + 1)
    ELSE 0

\* bookkeeping of a change of searchQuery
NoteEdit ==
    /\ sinceEdit' = 0
    /\ inflight' = [i \in 1..Len(inflight) |-> [superseded |-> TRUE]]
    /\ burstEdits' = IF sinceEdit >= DebounceWindow THEN 1 ELSE Min(burstEdits + 1, 2)
    /\ burstRequests' = IF sinceEdit >= DebounceWindow THEN 0 ELSE burstRequests

\* ------------------------------------------------------------------ Init
Init ==
    /\ isVisible = FALSE
    /\ searchQuery = <<>>
    /\ results = <<>>
    /\ isSearching = FALSE
    /\ selectedIndex = -1
    /\ timers = {}
    /\ inflight = <<>>
    /\ pendingActs = 0
    /\ uncaught = FALSE
    /\ sinceEdit = DebounceWindow
    /\ burstEdits = 0
    /\ burstRequests = 0
    /\ downs = 0
    /\ lastEvent = Event("mount", <<>>, NoResult, FALSE)

\* --------------------------------------------------------------- actions

\* toggleVisibility resetting the fields only when it closes the overlay
Toggle_ResetOnCloseOnly ==
    /\ downs' = 0
    /\ isVisible' = ~isVisible
    /\ IF isVisible
       THEN /\ searchQuery' = <<>>
            /\ results' = <<>>
            /\ selectedIndex' = -1
            /\ IF searchQuery # <<>>
               THEN timers' = ClearTimeout(timers) /\ NoteEdit
               ELSE UNCHANGED <<timers, inflight, sinceEdit, burstEdits, burstRequests>>
       ELSE UNCHANGED <<searchQuery, results, selectedIndex, timers, inflight,
                        sinceEdit, burstEdits, burstRequests>>
    /\ lastEvent' = Event("toggle", <<>>, NoResult, FALSE)
    /\ UNCHANGED <<isSearching, pendingActs, uncaught>>

\* Ctrl+Space: useKeyboardShortcut calls toggleVisibility
Toggle ==
    /\ downs' = 0
    /\ isVisible' = ~isVisible
    /\ searchQuery' = <<>>
    /\ IF searchQuery # <<>>
       THEN \* searchQuery changed: its effect runs after the render
            /\ timers' = ClearTimeout(timers)
            /\ NoteEdit
       ELSE UNCHANGED <<timers, inflight, sinceEdit, burstEdits, burstRequests>>
    /\ results' = <<>>
    /\ selectedIndex' = -1
    /\ lastEvent' = Event("toggle", <<>>, NoResult, FALSE)
    /\ UNCHANGED <<isSearching, pendingActs, uncaught>>

\* onChange of the input: setSearchQuery(e.target.value), then the effect.
\* The input is part of the panel and is typed into only while it is shown.
ChangeQuery(q) ==
    /\ downs' = 0
    /\ isVisible
    /\ q # searchQuery
    /\ searchQuery' = q
    /\ QueryEffect(q)
    /\ NoteEdit
    /\ lastEvent' = Event("change", <<>>, NoResult, FALSE)
    /\ UNCHANGED <<isVisible, isSearching, pendingActs, uncaught>>

\* time passes
Tick ==
    /\ UNCHANGED downs
    /\ \/ sinceEdit < DebounceWindow
       \/ \E t \in timers : t.remaining > 0
    /\ sinceEdit' = Min(sinceEdit + TickStep, DebounceWindow)
    /\ timers' = {[t EXCEPT !.remaining = Max(t.remaining - TickStep, 0)] : t \in timers}
    /\ UNCHANGED <<isVisible, searchQuery, results, isSearching, selectedIndex,
                   inflight, pendingActs, uncaught, burstEdits, burstRequests>>
    /\ lastEvent' = Event("tick", <<>>, NoResult, FALSE)

\* a due timeout runs its callback for a query performSearch answers itself:
\* setIsSearching(true), performSearch returns [], setResults([]),
\* setIsSearching(false), with no event in between
TimerFireShort(t) ==
    /\ downs' = 0
    /\ t \in timers
    /\ t.remaining = 0
    /\ ~ShouldInvoke(t.query)
    /\ timers' = timers \ {t}
    /\ results' = <<>>
    /\ isSearching' = FALSE
    /\ lastEvent' = Event("timerShort", t.query, NoResult, FALSE)
    /\ UNCHANGED <<isVisible, searchQuery, selectedIndex, inflight, pendingActs,
                   uncaught, sinceEdit, burstEdits, burstRequests>>

\* a due timeout runs its callback up to the await of invoke('search')
TimerFireSearch(t) ==
    /\ downs' = 0
    /\ t \in timers
    /\ t.remaining = 0
    /\ ShouldInvoke(t.query)
    /\ Len(inflight) < MaxInFlight
    /\ timers' = timers \ {t}
    /\ isSearching' = TRUE
    /\ inflight' = Append(inflight, [superseded |-> FALSE])
    /\ burstRequests' = Min(burstRequests + 1, 2)
    /\ lastEvent' = Event("dispatch", t.query, NoResult, FALSE)
    /\ UNCHANGED <<isVisible, searchQuery, results, selectedIndex, pendingActs,
                   uncaught, sinceEdit, burstEdits>>

\* invoke('search') settles and the callback continues after the await
SearchComplete(i, outcome) ==
    /\ downs' = 0
    /\ i \in 1..Len(inflight)
    \* calls with the same note are alike: the oldest of them stands for all
    /\ \A j \in 1..(i - 1) : inflight[j] # inflight[i]
    /\ LET s == SearchSettle(outcome)
       IN  /\ results' = s.results
           /\ isSearching' = s.isSearching
           /\ uncaught' = (uncaught \/ s.rejected)
    /\ inflight' = RemoveAt(inflight, i)
    /\ lastEvent' = Event(IF outcome.ok THEN "searchDone" ELSE "searchFailed",
                          <<>>, NoResult, inflight[i].superseded)
    /\ UNCHANGED <<isVisible, searchQuery, selectedIndex, timers, pendingActs,
                   sinceEdit, burstEdits, burstRequests>>

\* handleKeyDown without the visibility test: ArrowDown moves the selection
KeyWhileHidden_Unguarded ==
    /\ downs' = 0
    /\ ~isVisible
    /\ selectedIndex' = ArrowDownIndex(selectedIndex, Len(results))
    /\ lastEvent' = Event("keyIgnored", <<>>, NoResult, FALSE)
    /\ UNCHANGED <<isVisible, searchQuery, results, isSearching, timers,
                   inflight, pendingActs, uncaught, sinceEdit, burstEdits,
                   burstRequests>>

\* handleKeyDown while the overlay is not visible: if (!isVisible) return
KeyWhileHidden ==
    /\ downs' = 0
    /\ ~isVisible
    /\ lastEvent' = Event("keyIgnored", <<>>, NoResult, FALSE)
    /\ UNCHANGED <<isVisible, searchQuery, results, isSearching, selectedIndex,
                   timers, inflight, pendingActs, uncaught, sinceEdit,
                   burstEdits, burstRequests>>

\* handleKeyDown, Escape
Escape ==
    /\ downs' = 0
    /\ isVisible
    /\ isVisible' = FALSE
    /\ lastEvent' = Event("escape", <<>>, NoResult, FALSE)
    /\ UNCHANGED <<searchQuery, results, isSearching, selectedIndex, timers,
                   inflight, pendingActs, uncaught, sinceEdit, burstEdits, burstRequests>>

\* handleKeyDown, ArrowDown
ArrowDown ==
    /\ downs' = DownsAfter(downs, selectedIndex)
    /\ isVisible
    /\ selectedIndex' = ArrowDownIndex(selectedIndex, Len(results))
    /\ lastEvent' = Event("arrowDown", <<>>, NoResult, FALSE)
    /\ UNCHANGED <<isVisible, searchQuery, results, isSearching, timers,
                   inflight, pendingActs, uncaught, sinceEdit, burstEdits, burstRequests>>

\* handleKeyDown, ArrowUp
ArrowUp ==
    /\ downs' = 0
    /\ isVisible
    /\ selectedIndex' = ArrowUpIndex(selectedIndex)
    /\ lastEvent' = Event("arrowUp", <<>>, NoResult, FALSE)
    /\ UNCHANGED <<isVisible, searchQuery, results, isSearching, timers,
                   inflight, pendingActs, uncaught, sinceEdit, burstEdits, burstRequests>>

\* handleResultClick up to the await of invoke
Activate(result, kind) ==
    /\ UNCHANGED downs
    /\ pendingActs < MaxActivations
    /\ pendingActs' = pendingActs + 1
    /\ lastEvent' = [Event(kind, <<>>, result, FALSE) EXCEPT
                        !.call = [cmd |-> ActivationCmd(result), path |-> result.path]]
    /\ UNCHANGED <<isVisible, searchQuery, results, isSearching, selectedIndex,
                   timers, inflight, uncaught, sinceEdit, burstEdits, burstRequests>>

\* handleKeyDown, Enter on a selected row
EnterKey ==
    /\ isVisible
    /\ EnterActivates(selectedIndex, results)
    /\ Activate(results[selectedIndex + 1], "enter")

\* handleKeyDown, Enter with no row selected: no branch is taken
EnterNoSelection ==
    /\ downs' = 0
    /\ isVisible
    /\ ~EnterActivates(selectedIndex, results)
    /\ lastEvent' = Event("enterNone", <<>>, NoResult, FALSE)
    /\ UNCHANGED <<isVisible, searchQuery, results, isSearching, selectedIndex,
                   timers, inflight, pendingActs, uncaught, sinceEdit,
                   burstEdits, burstRequests>>

\* onClick / onDoubleClick of a row of the list (rows are clicked only while
\* the panel is shown)
ClickResult(i) ==
    /\ isVisible
    /\ i \in 1..Len(results)
    /\ Activate(results[i], "click")

\* invoke('open_path' | 'launch_app') settles and handleResultClick continues
ActivationComplete(ok) ==
    /\ downs' = 0
    /\ pendingActs > 0
    /\ LET s == ActivationSettle(ok, isVisible)
       IN  /\ isVisible' = s.isVisible
           /\ uncaught' = (uncaught \/ s.rejected)
           /\ lastEvent' = Event(IF ok THEN "activationDone" ELSE "activationFailed",
                                 <<>>, NoResult, s.alert)
    /\ pendingActs' = pendingActs - 1
    /\ UNCHANGED <<searchQuery, results, isSearching, selectedIndex, timers,
                   inflight, sinceEdit, burstEdits, burstRequests>>

Next ==
    \/ Toggle
    \/ \E q \in Edits(searchQuery) : ChangeQuery(q)
    \/ Tick
    \/ \E t \in timers : TimerFireShort(t)
    \/ \E t \in timers : TimerFireSearch(t)
    \/ \E i \in 1..MaxInFlight, o \in Outcomes : SearchComplete(i, o)
    \/ KeyWhileHidden
    \/ Escape
    \/ ArrowDown
    \/ ArrowUp
    \/ EnterKey
    \/ EnterNoSelection
    \/ \E i \in 1..MaxResults : ClickResult(i)
    \/ \E ok \in BOOLEAN : ActivationComplete(ok)

Spec == Init /\ [][Next]_vars

\* the events of the search pipeline alone: query changes, time, timer
\* firings, completions and the two ways of closing that involve no result
SearchNext ==
    \/ Toggle
    \/ \E q \in Edits(searchQuery) : ChangeQuery(q)
    \/ Tick
    \/ \E t \in timers : TimerFireShort(t)
    \/ \E t \in timers : TimerFireSearch(t)
    \/ \E i \in 1..MaxInFlight, o \in Outcomes : SearchComplete(i, o)
    \/ Escape

\* every invoke('search') promise settles
FairSpec ==
    /\ Init
    /\ [][SearchNext]_vars
    /\ WF_vars(\E i \in 1..MaxInFlight, o \in Outcomes : SearchComplete(i, o))

TypeOK ==
    /\ isVisible \in BOOLEAN
    /\ searchQuery \in Queries
    /\ results \in Responses
    /\ isSearching \in BOOLEAN
    /\ selectedIndex \in -1..MaxResults
    /\ Len(inflight) <= MaxInFlight
    /\ pendingActs \in 0..MaxActivations
    /\ sinceEdit \in 0..DebounceWindow

\* the "No results found" row: its condition in the JSX, inside the container
\* that carries the class 'visible' only while isVisible
NoMatchRendered ==
    ~isSearching /\ Len(results) = 0 /\ Len(searchQuery) >= 2
NoMatchShown == isVisible /\ NoMatchRendered

\* ---------------------------------------------------------------- claims

SearchCompleted == lastEvent.kind \in {"searchDone", "searchFailed"}
ResultsCleared ==
    \/ lastEvent.kind = "toggle"
    \/ lastEvent.kind = "change" /\ Trim(searchQuery) = <<>>

\* C1: in every reachable state, -1 <= selection <= len(results) - 1.
C1_SelectionInRange ==
    /\ -1 <= selectedIndex
    /\ selectedIndex <= Len(results) - 1

\* C2: in the state after results was replaced by a completed search
\* (success or failure) or cleared, selection is -1.
C2_SelectionResetWithResults ==
    (SearchCompleted \/ ResultsCleared) => selectedIndex = -1

\* C3: in the state after the overlay was closed by Escape or by toggle,
\* query is empty, results is empty and selection is -1.
C3_CloseResets ==
    (lastEvent.kind \in {"escape", "toggle"} /\ ~isVisible)
        => (searchQuery = <<>> /\ results = <<>> /\ selectedIndex = -1)

\* C4: a search response is applied to results only if searchQuery has not
\* changed since its request was issued.
C4_SupersededResponseDiscarded ==
    SearchCompleted => ~lastEvent.flag

\* C5: in a run of query changes each less than the debounce window after the
\* one before, at most one search request is issued, it is issued only once
\* the window has elapsed after the last change, and it carries the query
\* as it is then.
C5_DebounceCoalesces ==
    /\ burstRequests <= 1
    /\ lastEvent.kind = "dispatch"
          => (sinceEdit >= 200 /\ lastEvent.query = searchQuery)

\* C5 happens: two changes in quick succession, then one request
C5_Witness ==
    /\ lastEvent.kind = "dispatch"
    /\ burstEdits >= 2
    /\ burstRequests = 1

\* C6: no search request is issued for a query of fewer than 2 characters.
C6_NoShortRequest ==
    lastEvent.kind = "dispatch" => Len(lastEvent.query) >= 2

\* C6 happens: the timer of a one-character query fired and issued nothing
C6_Witness ==
    /\ lastEvent.kind = "timerShort"
    /\ Len(lastEvent.query) = 1
    /\ inflight = <<>>

\* C7: each activation of a result invokes exactly one external operation,
\* with the result's path: launch_app for an application, open_path for a
\* file or a folder.
C7_ActivationRouting ==
    [][lastEvent'.kind \in {"enter", "click"} =>
         LET r == lastEvent'.result
             c == lastEvent'.call
         IN  /\ pendingActs' = pendingActs + 1
             /\ c.path = r.path
             /\ r.type = "app" => c.cmd = "launch_app"
             /\ r.type \in {"file", "folder"} => c.cmd = "open_path"
             /\ r.type \in {"file", "folder", "app"}]_vars

\* C7 happens: Enter on a selected folder has invoked open_path
C7_Witness ==
    /\ lastEvent.kind = "enter"
    /\ lastEvent.result.type = "folder"
    /\ pendingActs = 1
    /\ lastEvent.call = [cmd |-> "open_path", path |-> lastEvent.result.path]

\* C8: when open_path or launch_app fails, the failure is shown to the user
\* and visible, query, results, searching and selection keep their values.
C8_FailedActivationKeepsState ==
    [][lastEvent'.kind = "activationFailed" =>
         /\ lastEvent'.flag
         /\ isVisible' = isVisible
         /\ searchQuery' = searchQuery
         /\ results' = results
         /\ isSearching' = isSearching
         /\ selectedIndex' = selectedIndex]_vars

\* C8 happens: an activation failed while the overlay showed results
C8_Witness ==
    /\ lastEvent.kind = "activationFailed"
    /\ lastEvent.flag
    /\ isVisible
    /\ results # <<>>
    /\ selectedIndex >= 0

\* C9: in the state after open_path or launch_app succeeded, the overlay is
\* closed and reset: not visible, query empty, results empty, selection -1.
C9_SuccessClosesAndResets ==
    lastEvent.kind = "activationDone"
        => (~isVisible /\ searchQuery = <<>> /\ results = <<>> /\ selectedIndex = -1)

\* C10: in the state after a search request failed, results is empty,
\* searching is false and no exception has escaped.
C10_FailedSearchIsEmpty ==
    /\ lastEvent.kind = "searchFailed" => (results = <<>> /\ ~isSearching)
    /\ ~uncaught

\* C10 happens: a request for the query on display failed
C10_Witness ==
    /\ lastEvent.kind = "searchFailed"
    /\ ~lastEvent.flag
    /\ isVisible
    /\ results = <<>>

\* C12: toggle from a closed overlay yields visible with query empty, results
\* empty and selection -1, however the overlay was closed before; toggle from
\* an open overlay yields not visible with the same three fields cleared.
C12_ToggleOpensEmptyAndCloses ==
    [][lastEvent'.kind = "toggle" =>
         /\ isVisible' = ~isVisible
         /\ searchQuery' = <<>>
         /\ results' = <<>>
         /\ selectedIndex' = -1]_vars

\* C12 happens: the overlay was hidden with a query still in place (by Escape
\* or by an activation) and toggle has reopened it empty
C12_Witness ==
    /\ lastEvent.kind = "toggle"
    /\ isVisible
    /\ sinceEdit = 0
    /\ searchQuery = <<>> /\ results = <<>> /\ selectedIndex = -1

\* C13: whenever a search request is outstanding, searching is true.
C13_SearchingWhileOutstanding ==
    Len(inflight) > 0 => isSearching

\* C14: while the overlay is not visible no debounce timer is pending and no
\* search request is dispatched.
C14_CloseCancelsTimer ==
    ~isVisible => (timers = {} /\ lastEvent.kind # "dispatch")

\* C15: a search response that completes while the overlay is not visible is
\* not applied, and results does not turn non-empty while it is not visible.
C15_NoResponseWhileHidden ==
    [][~isVisible' =>
         /\ lastEvent'.kind \in {"searchDone", "searchFailed"} => results' = results
         /\ results = <<>> => results' = <<>>]_vars

\* C16: whenever the query is empty after trimming or shorter than 2
\* characters, results is empty.
C16_ShortQueryNoResults ==
    (Trim(searchQuery) = <<>> \/ Len(searchQuery) < 2) => results = <<>>

\* C17: the no-match row is shown only when the overlay is visible and the
\* query has at least 2 characters, and not while the debounce timer of the
\* query is pending or its request is in flight.
C17_NoMatchOnlyAfterSearch ==
    NoMatchShown =>
        /\ isVisible
        /\ Len(searchQuery) >= 2
        /\ timers = {}
        /\ \A i \in 1..Len(inflight) : inflight[i].superseded

\* C18: a key event while the overlay is not visible changes none of visible,
\* query, results, searching and selection and invokes no open or launch.
C18_KeysIgnoredWhileHidden ==
    [][lastEvent'.kind = "keyIgnored" =>
         /\ ~isVisible
         /\ isVisible' = isVisible
         /\ searchQuery' = searchQuery
         /\ results' = results
         /\ isSearching' = isSearching
         /\ selectedIndex' = selectedIndex
         /\ pendingActs' = pendingActs
         /\ lastEvent'.call = NoCall]_vars

\* C18 happens: a key arrived while the overlay was hidden with a row selected
C18_Witness ==
    /\ lastEvent.kind = "keyIgnored"
    /\ ~isVisible
    /\ selectedIndex >= 0
    /\ selectedIndex < Len(results)

\* C19: at most one debounce timer is pending, it is the one the ref names
\* and it is armed for the current query; a timer that fires does so for the
\* current query.
C19_OneTimer ==
    /\ Cardinality(timers) <= 1
    /\ \A t \in timers : t.current /\ t.query = searchQuery
    /\ lastEvent.kind \in {"dispatch", "timerShort"} => lastEvent.query = searchQuery

\* C19 happens: a second change of the query within the window has replaced
\* the timer of the first
C19_Witness ==
    /\ lastEvent.kind = "change"
    /\ burstEdits >= 2
    /\ Cardinality(timers) = 1

\* C11: Enter on a visible overlay activates exactly results[selection] when
\* 0 <= selection < len(results) and nothing otherwise; after k >= 1 ArrowDown
\* presses from selection none over n >= 1 results, Enter activates
\* results[min(k, n) - 1].
C11_EnterActivatesSelection ==
    [][/\ lastEvent'.kind = "enter" =>
            /\ isVisible
            /\ 0 <= selectedIndex /\ selectedIndex < Len(results)
            /\ lastEvent'.result = results[selectedIndex + 1]
            /\ lastEvent'.call.path = results[selectedIndex + 1].path
            /\ pendingActs' = pendingActs + 1
            /\ (downs >= 1 /\ Len(results) >= 1)
                  => lastEvent'.result = results[Min(downs, Len(results))]
       /\ lastEvent'.kind = "enterNone" =>
            /\ ~(0 <= selectedIndex /\ selectedIndex < Len(results))
            /\ ~(downs >= 1 /\ Len(results) >= 1)
            /\ pendingActs' = pendingActs
            /\ lastEvent'.call = NoCall]_vars

\* C11 happens: ArrowDown twice over two or more results, then Enter, has
\* activated the second result
C11_Witness ==
    /\ lastEvent.kind = "enter"
    /\ downs = 2
    /\ Len(results) >= 2
    /\ lastEvent.result = results[2]
    /\ lastEvent.call.path = results[2].path

\* C20: if every issued search request eventually completes, searching true
\* is always followed by searching false.
C20_SearchingEnds == isSearching ~> ~isSearching

\* C20 happens: searching is true with two requests outstanding
C20_Witness ==
    /\ isSearching
    /\ Len(inflight) >= 2
    /\ lastEvent.kind = "dispatch"

====
